---- MODULE Spec2Model ----
(***************************************************************************)
(* Session manager of the delve tool (pkg/tools/delve/delve.go): the       *)
(* registry of persistent "dlv connect" subprocess sessions, the command   *)
(* round trip with its reader goroutine, explicit disconnect and the idle  *)
(* reaper.  One action per step of a handler between two points where      *)
(* another goroutine can observe or change the shared state.               *)
(*                                                                         *)
(* Time is counted in minutes.  The sub-minute sleeps of the code          *)
(* (sessionStartupDelay, disconnectDelay) and the command timeout are the  *)
(* points where other goroutines interleave; they are the boundaries       *)
(* between the steps below.                                                *)
(***************************************************************************)
EXTENDS Integers, Sequences, FiniteSets, TLC

\* ---------------------------------------------------------------- bounds
\* Subprocesses spawned over a run (each connect that starts one uses one).
MaxSessions == 2
\* Lines the stdout pipe of a subprocess holds before its writer blocks.
MaxPipe == 2
\* Reader goroutines left behind by timed-out commands, per subprocess.
MaxOrphans == 1
\* The clock stops here (minutes).
MaxClock == 32
\* Lines the reader goroutine of one command collects.
MaxOut == 2
\* Connectors the kube tool creates over a run (one per port-forward request that
\* gets past the checks of its resource and port).
MaxConnectors == 3

\* ------------------------------------------------------------- constants
cleanupInterval == 5
sessionMaxIdleTime == 30

\* Amounts by which time advances between two steps (minutes).
TickSteps == {30, 31}

Ids == {"d1", "d2"}
Clients == {"c1", "c2"}
Reaper == "reaper"
None == "none"
Objs == 1..MaxSessions
\* The value of an absent map entry / a handler that holds no session.
NoSession == 0
\* Connectors of the kube tool, and the nil connector.
Conns == 1..MaxConnectors
NoConnector == 0

\* Output lines of the subprocess, as character sequences.
PromptDlv == <<"(", "d", "l", "v", ")">>
PromptGt == <<">">>
Lines == { <<"o", "k">>, PromptDlv \o <<" ">>, <<"-", ">">> }

VARIABLES
    sessions,    \* d.sessions: session_id -> session object, or NoSession
    sessionMu,   \* d.sessionMu: the goroutine holding the write lock, or None
    alloc,       \* number of subprocess objects created so far
    proc,        \* per object: "unborn", "running", or how it ended: "exited" (on its own),
                 \* "killed" (Process.Kill of a teardown), "cancelled" (killed by its context)
    stdinOpen,   \* per object: session.stdin not yet closed
    sout,        \* per object: lines written by the subprocess, not yet read from the pipe
    mu,          \* per object: holder of session.mu, or None
    lastUsed,    \* per object: session.lastUsed
    removed,     \* per object: its registry entry has been deleted
    orphans,     \* per object: reader goroutines of returned commands still scanning stdout
    leaked,      \* per object: reader goroutines blocked forever on their done channel
    desc,        \* per object: a process forked by the subprocess is running
    pc,          \* per client: position in the handler it runs
    op,          \* per client: the action of its last request ("connect", "command", "disconnect")
    arg,         \* per client: input.SessionID of the running request
    sess,        \* per client: the *DelveSession the handler holds
    res,         \* per client: result of the last finished request
    out,         \* per client: the output builder of the running command; once the request
                 \* has returned, the output text its caller received
    rd,          \* per client: state of the reader goroutine of the running command
    rbuf,        \* per client: lines the reader's scanner has read and not yet returned
    rpc,         \* reaper: position in cleanupStaleSessions
    rnow,        \* reaper: now, read at the start of the sweep
    rtodo,       \* reaper: map keys the range loop has not visited yet
    rcur,        \* reaper: key being cleaned up
    clock,       \* time.Now()
    tickPending, \* a tick waits in ticker.C
    nconn,          \* kube tool: connectors created so far
    lastConnector,  \* kube tool: k.lastConnector, or NoConnector
    portForwardCmd, \* per connector: c.portForwardCmd is not nil
    kproc,          \* per connector: its "kubectl port-forward" process: "none", "running", "ended"
    kpc,            \* kube tool: position of the request being handled
    kcur,           \* kube tool: the connector the handler holds
    kres            \* kube tool: result of the last finished request

registryVars == <<sessions, sessionMu>>
objVars == <<alloc, proc, stdinOpen, sout, mu, lastUsed, removed, orphans, leaked, desc>>
clientVars == <<pc, op, arg, sess, res, out, rd, rbuf>>
reaperVars == <<rpc, rnow, rtodo, rcur>>
timeVars == <<clock, tickPending>>
kubeVars == <<nconn, lastConnector, portForwardCmd, kproc, kpc, kcur, kres>>
vars == <<sessions, sessionMu, alloc, proc, stdinOpen, sout, mu, lastUsed, removed, orphans,
          leaked, desc, pc, op, arg, sess, res, out, rd, rbuf, rpc, rnow, rtodo, rcur, clock,
          tickPending,
          nconn, lastConnector, portForwardCmd, kproc, kpc, kcur, kres>>

\* ------------------------------------------------------------ pure parts
\* strings.Contains(line, pat)
Contains(line, pat) ==
    \E i \in 1..(Len(line) - Len(pat) + 1) : SubSeq(line, i, i + Len(pat) - 1) = pat

\* The prompt test of the reader goroutine.
HasPrompt(line) == Contains(line, PromptDlv) \/ Contains(line, PromptGt)

\* now.Sub(session.lastUsed) > sessionMaxIdleTime
IsStaleMutant(now, used) == now - used >= sessionMaxIdleTime
IsStale(now, used) == now - used > sessionMaxIdleTime

\* sync.RWMutex / sync.Mutex: Lock() returns only when nobody holds the lock.
\* Readers hold d.sessionMu only inside one step (the lookup), so only the
\* writer is state.
RegistryLockFreeMutant == TRUE
RegistryLockFree == sessionMu = None

SessionLockFreeMutant(o) == TRUE
SessionLockFree(o) == mu[o] = None

\* os.Process.Kill(): SIGKILL to the direct child; a no-op on a process that is gone.
KillMutant(o, how) == proc
Kill(o, how) == [proc EXCEPT ![o] = IF @ = "running" THEN how ELSE @]

\* The process has ended and nobody has waited for it: nothing in delve.go calls
\* cmd.Wait(), so an ended process keeps its entry in the process table.
Zombie(o) == proc[o] \in {"exited", "killed", "cancelled"}

\* Whether a write to session.stdin succeeds: the pipe is open on both ends.
StdinWritable(o) == stdinOpen[o] /\ proc[o] = "running"

\* End of stream on session.stdout: the writer is gone and the pipe is drained.
AtEOF(o) == proc[o] # "running" /\ sout[o] = <<>>

\* ---------------------------------------------------------------- Init
Init ==
    /\ sessions = [i \in Ids |-> NoSession]
    /\ sessionMu = None
    /\ alloc = 0
    /\ proc = [o \in Objs |-> "unborn"]
    /\ stdinOpen = [o \in Objs |-> FALSE]
    /\ sout = [o \in Objs |-> <<>>]
    /\ mu = [o \in Objs |-> None]
    /\ lastUsed = [o \in Objs |-> 0]
    /\ removed = [o \in Objs |-> FALSE]
    /\ orphans = [o \in Objs |-> 0]
    /\ leaked = [o \in Objs |-> 0]
    /\ desc = [o \in Objs |-> FALSE]
    /\ pc = [c \in Clients |-> "idle"]
    /\ op = [c \in Clients |-> None]
    /\ arg = [c \in Clients |-> None]
    /\ sess = [c \in Clients |-> NoSession]
    /\ res = [c \in Clients |-> None]
    /\ out = [c \in Clients |-> <<>>]
    /\ rd = [c \in Clients |-> None]
    /\ rbuf = [c \in Clients |-> <<>>]
    /\ rpc = "ticker"
    /\ rnow = 0
    /\ rtodo = {}
    /\ rcur = None
    /\ clock = 0
    /\ tickPending = FALSE
    /\ nconn = 0
    /\ lastConnector = NoConnector
    /\ portForwardCmd = [k \in Conns |-> FALSE]
    /\ kproc = [k \in Conns |-> "none"]
    /\ kpc = "idle"
    /\ kcur = NoConnector
    /\ kres = None

\* A request ends: the handler returns r to its caller.
Return(c, r) ==
    /\ pc' = [pc EXCEPT ![c] = "idle"]
    /\ res' = [res EXCEPT ![c] = r]
    /\ sess' = [sess EXCEPT ![c] = NoSession]

\* -------------------------------------------------------------- connect
\* handleConnect without its existence check.
HandleConnectMutant(c, id) ==
    /\ pc[c] = "idle"
    /\ RegistryLockFree
    /\ op' = [op EXCEPT ![c] = "connect"]
    /\ arg' = [arg EXCEPT ![c] = id]
    /\ sessionMu' = c
    /\ pc' = [pc EXCEPT ![c] = "connectSession"]
    /\ res' = [res EXCEPT ![c] = None]
    /\ UNCHANGED <<sessions, objVars, sess, out, rd, rbuf, reaperVars, timeVars, kubeVars>>

\* handleConnect: Lock, the existence check and its early return.
HandleConnect(c, id) ==
    /\ pc[c] = "idle"
    /\ RegistryLockFree
    /\ op' = [op EXCEPT ![c] = "connect"]
    /\ arg' = [arg EXCEPT ![c] = id]
    /\ IF sessions[id] # NoSession
       THEN /\ Return(c, "already_exists")
            /\ UNCHANGED sessionMu
       ELSE /\ sessionMu' = c
            /\ pc' = [pc EXCEPT ![c] = "connectSession"]
            /\ res' = [res EXCEPT ![c] = None]
            /\ UNCHANGED sess
    /\ UNCHANGED <<sessions, objVars, out, rd, rbuf, reaperVars, timeVars, kubeVars>>

\* connectSession: the pipes and cmd.Start() succeed; the session object is built.
ConnectSessionStart(c) ==
    /\ pc[c] = "connectSession"
    /\ alloc < MaxSessions
    /\ LET o == alloc + 1 IN
       /\ alloc' = o
       /\ proc' = [proc EXCEPT ![o] = "running"]
       /\ stdinOpen' = [stdinOpen EXCEPT ![o] = TRUE]
       /\ lastUsed' = [lastUsed EXCEPT ![o] = clock]
       /\ sess' = [sess EXCEPT ![c] = o]
    /\ pc' = [pc EXCEPT ![c] = "startupDelay"]
    /\ UNCHANGED <<registryVars, sout, mu, removed, orphans, leaked, desc, op, arg, res,
                   out, rd, rbuf, reaperVars, timeVars, kubeVars>>

\* handleConnect keeping the entry of a session whose spawn failed.
ConnectSessionFailMutant(c) ==
    /\ pc[c] = "connectSession"
    /\ alloc < MaxSessions
    /\ alloc' = alloc + 1
    /\ sessions' = [sessions EXCEPT ![arg[c]] = alloc + 1]
    /\ sessionMu' = None
    /\ Return(c, "spawn_error")
    /\ UNCHANGED <<proc, stdinOpen, sout, mu, lastUsed, removed, orphans, leaked, desc, op,
                   arg, out, rd, rbuf, reaperVars, timeVars, kubeVars>>

\* connectSession fails (a pipe or cmd.Start()); handleConnect unlocks and returns the error.
ConnectSessionFail(c) ==
    /\ pc[c] = "connectSession"
    /\ sessionMu' = None
    /\ Return(c, "spawn_error")
    /\ UNCHANGED <<sessions, objVars, op, arg, out, rd, rbuf, reaperVars, timeVars,
                   kubeVars>>

\* After the startup sleep: insert into the map, unlock, return success.
HandleConnectInsert(c) ==
    /\ pc[c] = "startupDelay"
    /\ sessions' = [sessions EXCEPT ![arg[c]] = sess[c]]
    /\ sessionMu' = None
    /\ Return(c, "connected")
    /\ UNCHANGED <<objVars, op, arg, out, rd, rbuf, reaperVars, timeVars, kubeVars>>

\* -------------------------------------------------------------- command
\* handleCommand marking every session as used when the id is absent.
HandleCommandMutant(c, id) ==
    /\ pc[c] = "idle"
    /\ RegistryLockFree
    /\ op' = [op EXCEPT ![c] = "command"]
    /\ arg' = [arg EXCEPT ![c] = id]
    /\ IF sessions[id] = NoSession
       THEN /\ Return(c, "not_found")
            /\ lastUsed' = [o \in Objs |-> clock]
       ELSE /\ sess' = [sess EXCEPT ![c] = sessions[id]]
            /\ pc' = [pc EXCEPT ![c] = "executeCommand"]
            /\ res' = [res EXCEPT ![c] = None]
            /\ UNCHANGED lastUsed
    /\ UNCHANGED <<registryVars, alloc, proc, stdinOpen, sout, mu, removed, orphans, leaked,
                   desc, out, rd, rbuf, reaperVars, timeVars, kubeVars>>

\* handleCommand: the lookup under RLock and the not-found return.
HandleCommand(c, id) ==
    /\ pc[c] = "idle"
    /\ RegistryLockFree
    /\ op' = [op EXCEPT ![c] = "command"]
    /\ arg' = [arg EXCEPT ![c] = id]
    /\ IF sessions[id] = NoSession
       THEN Return(c, "not_found")
       ELSE /\ sess' = [sess EXCEPT ![c] = sessions[id]]
            /\ pc' = [pc EXCEPT ![c] = "executeCommand"]
            /\ res' = [res EXCEPT ![c] = None]
    /\ UNCHANGED <<registryVars, objVars, out, rd, rbuf, reaperVars, timeVars, kubeVars>>

\* executeCommand taking the registry lock for the whole round trip.
ExecLockMutant(c) ==
    /\ pc[c] = "executeCommand"
    /\ SessionLockFree(sess[c])
    /\ RegistryLockFree
    /\ sessionMu' = c
    /\ mu' = [mu EXCEPT ![sess[c]] = c]
    /\ lastUsed' = [lastUsed EXCEPT ![sess[c]] = clock]
    /\ pc' = [pc EXCEPT ![c] = "sendCommand"]
    /\ UNCHANGED <<sessions, alloc, proc, stdinOpen, sout, removed, orphans, leaked, desc,
                   op, arg, sess, res, out, rd, rbuf, reaperVars, timeVars, kubeVars>>

\* executeCommand without the update of lastUsed.
ExecLockStaleMutant(c) ==
    /\ pc[c] = "executeCommand"
    /\ SessionLockFree(sess[c])
    /\ mu' = [mu EXCEPT ![sess[c]] = c]
    /\ pc' = [pc EXCEPT ![c] = "sendCommand"]
    /\ UNCHANGED <<registryVars, alloc, proc, stdinOpen, sout, lastUsed, removed, orphans,
                   leaked, desc, op, arg, sess, res, out, rd, rbuf, reaperVars, timeVars,
                   kubeVars>>

\* executeCommand: session.mu.Lock() and the lastUsed update.
ExecLock(c) ==
    /\ pc[c] = "executeCommand"
    /\ SessionLockFree(sess[c])
    /\ mu' = [mu EXCEPT ![sess[c]] = c]
    /\ lastUsed' = [lastUsed EXCEPT ![sess[c]] = clock]
    /\ pc' = [pc EXCEPT ![c] = "sendCommand"]
    /\ UNCHANGED <<registryVars, alloc, proc, stdinOpen, sout, removed, orphans, leaked,
                   desc, op, arg, sess, res, out, rd, rbuf, reaperVars, timeVars, kubeVars>>

\* executeCommand: the write of the command line; on success the reader goroutine starts,
\* on failure the deferred Unlock runs and the error is returned.
ExecSend(c) ==
    /\ pc[c] = "sendCommand"
    /\ IF StdinWritable(sess[c])
       THEN /\ pc' = [pc EXCEPT ![c] = "wait"]
            /\ rd' = [rd EXCEPT ![c] = "reading"]
            /\ out' = [out EXCEPT ![c] = <<>>]
            /\ UNCHANGED <<mu, res, sess>>
       ELSE /\ mu' = [mu EXCEPT ![sess[c]] = None]
            /\ Return(c, "send_failed")
            /\ out' = [out EXCEPT ![c] = <<>>]
            /\ UNCHANGED rd
    /\ UNCHANGED <<registryVars, alloc, proc, stdinOpen, sout, lastUsed, removed, orphans,
                   leaked, desc, op, arg, rbuf, reaperVars, timeVars, kubeVars>>

\* Reader goroutine: scanner.Scan() with an empty buffer reads what the pipe holds
\* (k lines of it) into the scanner's buffer.
ReaderRead(c, k) ==
    /\ rd[c] = "reading"
    /\ rbuf[c] = <<>>
    /\ k \in 1..Len(sout[sess[c]])
    /\ rbuf' = [rbuf EXCEPT ![c] = SubSeq(sout[sess[c]], 1, k)]
    /\ sout' = [sout EXCEPT ![sess[c]] = SubSeq(@, k + 1, Len(@))]
    /\ UNCHANGED <<registryVars, alloc, proc, stdinOpen, mu, lastUsed, removed, orphans,
                   leaked, desc, pc, op, arg, sess, res, out, rd, reaperVars, timeVars,
                   kubeVars>>

\* Reader goroutine: one line is returned by Scan, appended to the output, and tested
\* for the prompt; on a prompt the goroutine goes to "done <- true".
ReaderLine(c) ==
    /\ rd[c] = "reading"
    /\ rbuf[c] # <<>>
    /\ Len(out[c]) < MaxOut
    /\ out' = [out EXCEPT ![c] = Append(@, Head(rbuf[c]))]
    /\ rbuf' = [rbuf EXCEPT ![c] = Tail(@)]
    /\ rd' = [rd EXCEPT ![c] = IF HasPrompt(Head(rbuf[c])) THEN "sendTrue" ELSE "reading"]
    /\ UNCHANGED <<registryVars, objVars, pc, op, arg, sess, res, reaperVars, timeVars,
                   kubeVars>>

\* Reader goroutine: Scan returns false at end of stream; the goroutine goes to "done <- false".
ReaderEOF(c) ==
    /\ rd[c] = "reading"
    /\ rbuf[c] = <<>>
    /\ AtEOF(sess[c])
    /\ rd' = [rd EXCEPT ![c] = "sendFalse"]
    /\ UNCHANGED <<registryVars, objVars, pc, op, arg, sess, res, out, rbuf, reaperVars,
                   timeVars, kubeVars>>

\* executeCommand: the select receives from done; the reader goroutine ends; Unlock; return.
ExecDone(c) ==
    /\ pc[c] = "wait"
    /\ rd[c] \in {"sendTrue", "sendFalse"}
    /\ mu' = [mu EXCEPT ![sess[c]] = None]
    /\ rd' = [rd EXCEPT ![c] = None]
    /\ rbuf' = [rbuf EXCEPT ![c] = <<>>]
    /\ Return(c, "ok")
    /\ UNCHANGED <<registryVars, alloc, proc, stdinOpen, sout, lastUsed, removed, orphans,
                   leaked, desc, op, arg, out, reaperVars, timeVars, kubeVars>>

\* A reader whose command has returned: it goes on scanning session.stdout unless a
\* prompt line is already in its buffer or it is already at its send, where nobody
\* receives any more.
ReaderBlocksForever(c) ==
    \/ rd[c] \in {"sendTrue", "sendFalse"}
    \/ \E i \in 1..Len(rbuf[c]) : HasPrompt(rbuf[c][i])

\* executeCommand: the select takes time.After(commandTimeout); Unlock; return the
\* partial output and the error.  handleCommand returns (nil, error) on any error of
\* executeCommand, so the caller receives no output.  The reader goroutine is not stopped.
ExecTimeout(c) ==
    /\ pc[c] = "wait"
    /\ orphans[sess[c]] + leaked[sess[c]] < MaxOrphans
    /\ mu' = [mu EXCEPT ![sess[c]] = None]
    /\ IF ReaderBlocksForever(c)
       THEN /\ leaked' = [leaked EXCEPT ![sess[c]] = @ + 1]
            /\ UNCHANGED orphans
       ELSE /\ orphans' = [orphans EXCEPT ![sess[c]] = @ + 1]
            /\ UNCHANGED leaked
    /\ rd' = [rd EXCEPT ![c] = None]
    /\ rbuf' = [rbuf EXCEPT ![c] = <<>>]
    /\ Return(c, "timed_out")
    /\ out' = [out EXCEPT ![c] = <<>>]
    /\ UNCHANGED <<registryVars, alloc, proc, stdinOpen, sout, lastUsed, removed, desc, op,
                   arg, reaperVars, timeVars, kubeVars>>

\* A left-over reader reads k lines from the pipe; a prompt among them sends it to its
\* done channel for good.
OrphanRead(o, k) ==
    /\ orphans[o] > 0
    /\ k \in 1..Len(sout[o])
    /\ sout' = [sout EXCEPT ![o] = SubSeq(@, k + 1, Len(@))]
    /\ IF \E i \in 1..k : HasPrompt(sout[o][i])
       THEN /\ orphans' = [orphans EXCEPT ![o] = @ - 1]
            /\ leaked' = [leaked EXCEPT ![o] = @ + 1]
       ELSE UNCHANGED <<orphans, leaked>>
    /\ UNCHANGED <<registryVars, alloc, proc, stdinOpen, mu, lastUsed, removed, desc,
                   clientVars, reaperVars, timeVars, kubeVars>>

\* A left-over reader reaches the end of the stream and blocks on "done <- false".
OrphanEOF(o) ==
    /\ orphans[o] > 0
    /\ AtEOF(o)
    /\ orphans' = [orphans EXCEPT ![o] = @ - 1]
    /\ leaked' = [leaked EXCEPT ![o] = @ + 1]
    /\ UNCHANGED <<registryVars, alloc, proc, stdinOpen, sout, mu, lastUsed, removed, desc,
                   clientVars, reaperVars, timeVars, kubeVars>>

\* ------------------------------------------------------------ disconnect
\* disconnectSession: Lock, the lookup and the not-found return (with the deferred Unlock).
HandleDisconnect(c, id) ==
    /\ pc[c] = "idle"
    /\ RegistryLockFree
    /\ op' = [op EXCEPT ![c] = "disconnect"]
    /\ arg' = [arg EXCEPT ![c] = id]
    /\ IF sessions[id] = NoSession
       THEN /\ Return(c, "not_found")
            /\ UNCHANGED sessionMu
       ELSE /\ sessionMu' = c
            /\ sess' = [sess EXCEPT ![c] = sessions[id]]
            /\ pc' = [pc EXCEPT ![c] = "sendExit"]
            /\ res' = [res EXCEPT ![c] = None]
    /\ UNCHANGED <<sessions, objVars, out, rd, rbuf, reaperVars, timeVars, kubeVars>>

\* disconnectSession: "exit\n" is written to session.stdin (the error is ignored).
DisconnectSendExit(c) ==
    /\ pc[c] = "sendExit"
    /\ pc' = [pc EXCEPT ![c] = "closeStdin"]
    /\ UNCHANGED <<registryVars, objVars, op, arg, sess, res, out, rd, rbuf, reaperVars,
                   timeVars, kubeVars>>

\* disconnectSession: after disconnectDelay, session.stdin.Close().
DisconnectCloseStdin(c) ==
    /\ pc[c] = "closeStdin"
    /\ stdinOpen' = [stdinOpen EXCEPT ![sess[c]] = FALSE]
    /\ pc' = [pc EXCEPT ![c] = "kill"]
    /\ UNCHANGED <<registryVars, alloc, proc, sout, mu, lastUsed, removed, orphans, leaked,
                   desc, op, arg, sess, res, out, rd, rbuf, reaperVars, timeVars, kubeVars>>

\* disconnectSession giving up when the signal cannot be delivered.
DisconnectKillMutant(c) ==
    /\ pc[c] = "kill"
    /\ IF proc[sess[c]] = "running"
       THEN /\ proc' = Kill(sess[c], "killed")
            /\ pc' = [pc EXCEPT ![c] = "delete"]
            /\ UNCHANGED <<sessionMu, sess, res>>
       ELSE /\ sessionMu' = None
            /\ Return(c, "signal_error")
            /\ UNCHANGED proc
    /\ UNCHANGED <<sessions, alloc, stdinOpen, sout, mu, lastUsed, removed, orphans, leaked,
                   desc, op, arg, out, rd, rbuf, reaperVars, timeVars, kubeVars>>

\* disconnectSession: session.cmd.Process.Kill().
DisconnectKill(c) ==
    /\ pc[c] = "kill"
    /\ proc' = Kill(sess[c], "killed")
    /\ pc' = [pc EXCEPT ![c] = "delete"]
    /\ UNCHANGED <<registryVars, alloc, stdinOpen, sout, mu, lastUsed, removed, orphans,
                   leaked, desc, op, arg, sess, res, out, rd, rbuf, reaperVars, timeVars,
                   kubeVars>>

\* disconnectSession emptying the whole map.
DisconnectDeleteMutant(c) ==
    /\ pc[c] = "delete"
    /\ sessions' = [id \in Ids |-> NoSession]
    /\ removed' = [removed EXCEPT ![sess[c]] = TRUE]
    /\ sessionMu' = None
    /\ Return(c, "disconnected")
    /\ UNCHANGED <<alloc, proc, stdinOpen, sout, mu, lastUsed, orphans, leaked, desc, op,
                   arg, out, rd, rbuf, reaperVars, timeVars, kubeVars>>

\* disconnectSession: delete(d.sessions, sessionID), the deferred Unlock, return nil.
DisconnectDelete(c) ==
    /\ pc[c] = "delete"
    /\ sessions' = [sessions EXCEPT ![arg[c]] = NoSession]
    /\ removed' = [removed EXCEPT ![sess[c]] = TRUE]
    /\ sessionMu' = None
    /\ Return(c, "disconnected")
    /\ UNCHANGED <<alloc, proc, stdinOpen, sout, mu, lastUsed, orphans, leaked, desc, op,
                   arg, out, rd, rbuf, reaperVars, timeVars, kubeVars>>

\* ------------------------------------------------------------ DelveHandler
\* Limits of the validate tags of Input.
MaxPort == 65535
MaxCommandLen == 4096
MaxMaxLines == 100000
DefaultPort == 2345

\* Hosts that the "hostname|ip" tag accepts and hosts it rejects, as the tests of the
\* package expect them.
GoodHosts == {"localhost", "192.168.1.1"}
BadHosts == {"host$name!", "invalid@host"}

\* validator.Struct(input): the tags of Input.  Command stands for len(input.Command).
\* "omitempty" lets the zero value of a field pass.
Valid(in) ==
    /\ in.Host = "" \/ in.Host \in GoodHosts
    /\ in.Port >= 0 /\ in.Port <= MaxPort
    /\ in.Command <= MaxCommandLen
    /\ in.Action = "" \/ in.Action \in {"connect", "disconnect", "command"}
    /\ in.MaxLines >= 0 /\ in.MaxLines <= MaxMaxLines
    /\ in.Offset >= 0

\* The requests of the model: a well-formed one, every combination of session id,
\* action, host and port that passes validation, and requests with one field at or
\* beyond a limit.
BaseInput ==
    [Host |-> "localhost", Port |-> DefaultPort, Command |-> 4, SessionID |-> "d1",
     Action |-> "command", MaxLines |-> 0, Offset |-> 0]

Inputs ==
    {[BaseInput EXCEPT !.SessionID = s, !.Action = a, !.Host = h, !.Port = p] :
        s \in Ids \cup {""}, a \in {"", "connect", "disconnect", "command"},
        h \in {"", "localhost"}, p \in {0, DefaultPort}}
    \cup {[BaseInput EXCEPT !.Host = h] : h \in GoodHosts \cup BadHosts}
    \cup {[BaseInput EXCEPT !.Port = p] : p \in {0 - 1, MaxPort, MaxPort + 1}}
    \cup {[BaseInput EXCEPT !.Command = n] : n \in {0, MaxCommandLen, MaxCommandLen + 1}}
    \cup {[BaseInput EXCEPT !.Action = a, !.SessionID = s] :
             a \in {"restart"}, s \in {"", "d1"}}
    \cup {[BaseInput EXCEPT !.MaxLines = n] : n \in {0 - 1, MaxMaxLines, MaxMaxLines + 1}}
    \cup {[BaseInput EXCEPT !.Offset = n] : n \in {0 - 1, 1}}

\* A request that ends in DelveHandler's own step with result r: nothing but the
\* caller's request state changes.
HandlerReturn(c, what, r) ==
    /\ pc[c] = "idle"
    /\ op' = [op EXCEPT ![c] = what]
    /\ arg' = [arg EXCEPT ![c] = None]
    /\ Return(c, r)
    /\ UNCHANGED <<registryVars, objVars, out, rd, rbuf, reaperVars, timeVars, kubeVars>>

\* handleSingleCommand: a "dlv connect" of its own, given the command and "exit" and
\* waited for with cmd.Wait(); it returns the output or the error of the spawn.  No
\* session is looked up or created.
HandleSingleCommand(c) ==
    \E r \in {"single_output", "spawn_error"} : HandlerReturn(c, "single", r)

\* handleSessionOperation: the switch on the action.
HandleSessionOperation(c, id, action) ==
    CASE action = "connect" -> HandleConnect(c, id)
      [] action = "disconnect" -> HandleDisconnect(c, id)
      [] action = "command" -> HandleCommand(c, id)
      [] OTHER -> HandlerReturn(c, action, "unsupported_action")

\* DelveHandler without the validation of its input.
DelveHandlerMutant(c, in) ==
    IF in.SessionID # ""
    THEN HandleSessionOperation(c, in.SessionID, IF in.Action # "" THEN in.Action ELSE "command")
    ELSE HandleSingleCommand(c)

\* DelveHandler: validation, the defaults, and the dispatch on input.SessionID.
DelveHandler(c, in) ==
    IF ~Valid(in)
    THEN HandlerReturn(c, "invalid", "validation_error")
    ELSE IF in.SessionID # ""
    THEN HandleSessionOperation(c, in.SessionID, IF in.Action # "" THEN in.Action ELSE "command")
    ELSE HandleSingleCommand(c)

\* ---------------------------------------------------------------- reaper
\* cleanupStaleSessions sweeping without the registry lock.
ReaperSweepMutant ==
    /\ rpc = "ticker"
    /\ tickPending
    /\ rnow' = clock
    /\ rtodo' = {id \in Ids : sessions[id] # NoSession}
    /\ rpc' = "range"
    /\ tickPending' = FALSE
    /\ UNCHANGED <<sessions, sessionMu, objVars, clientVars, rcur, clock, kubeVars>>

\* cleanupStaleSessions: a tick arrives; Lock; now := time.Now(); the range loop starts.
ReaperSweep ==
    /\ rpc = "ticker"
    /\ tickPending
    /\ RegistryLockFree
    /\ sessionMu' = Reaper
    /\ rnow' = clock
    /\ rtodo' = {id \in Ids : sessions[id] # NoSession}
    /\ rpc' = "range"
    /\ tickPending' = FALSE
    /\ UNCHANGED <<sessions, objVars, clientVars, rcur, clock, kubeVars>>

\* One iteration of the range loop: the staleness test of one entry.
ReaperVisit(id) ==
    /\ rpc = "range"
    /\ id \in rtodo
    /\ rtodo' = rtodo \ {id}
    /\ IF IsStale(rnow, lastUsed[sessions[id]])
       THEN /\ rcur' = id
            /\ rpc' = "sendExit"
       ELSE UNCHANGED <<rcur, rpc>>
    /\ UNCHANGED <<registryVars, objVars, clientVars, rnow, timeVars, kubeVars>>

\* "exit\n" is written to the stale session's stdin (the error is ignored).
ReaperSendExit ==
    /\ rpc = "sendExit"
    /\ rpc' = "closeStdin"
    /\ UNCHANGED <<registryVars, objVars, clientVars, rnow, rtodo, rcur, timeVars,
                   kubeVars>>

\* After disconnectDelay, session.stdin.Close().
ReaperCloseStdin ==
    /\ rpc = "closeStdin"
    /\ stdinOpen' = [stdinOpen EXCEPT ![sessions[rcur]] = FALSE]
    /\ rpc' = "kill"
    /\ UNCHANGED <<registryVars, alloc, proc, sout, mu, lastUsed, removed, orphans, leaked,
                   desc, clientVars, rnow, rtodo, rcur, timeVars, kubeVars>>

\* session.cmd.Process.Kill().
ReaperKill ==
    /\ rpc = "kill"
    /\ proc' = Kill(sessions[rcur], "killed")
    /\ rpc' = "delete"
    /\ UNCHANGED <<registryVars, alloc, stdinOpen, sout, mu, lastUsed, removed, orphans,
                   leaked, desc, clientVars, rnow, rtodo, rcur, timeVars, kubeVars>>

\* cleanupStaleSessions without its delete.
ReaperDeleteMutant ==
    /\ rpc = "delete"
    /\ removed' = [removed EXCEPT ![sessions[rcur]] = TRUE]
    /\ rcur' = None
    /\ rpc' = "range"
    /\ UNCHANGED <<sessions, sessionMu, alloc, proc, stdinOpen, sout, mu, lastUsed, orphans,
                   leaked, desc, clientVars, rnow, rtodo, timeVars, kubeVars>>

\* delete(d.sessions, sessionID); the loop goes on.
ReaperDelete ==
    /\ rpc = "delete"
    /\ sessions' = [sessions EXCEPT ![rcur] = NoSession]
    /\ removed' = [removed EXCEPT ![sessions[rcur]] = TRUE]
    /\ rcur' = None
    /\ rpc' = "range"
    /\ UNCHANGED <<sessionMu, alloc, proc, stdinOpen, sout, mu, lastUsed, orphans, leaked,
                   desc, clientVars, rnow, rtodo, timeVars, kubeVars>>

\* The range loop is over: Unlock, back to the ticker.
ReaperUnlock ==
    /\ rpc = "range"
    /\ rtodo = {}
    /\ sessionMu' = None
    /\ rpc' = "ticker"
    /\ UNCHANGED <<sessions, objVars, clientVars, rnow, rtodo, rcur, timeVars, kubeVars>>

\* ----------------------------------------------------------- environment
\* The subprocess writes a line to its standard output.
ChildEmit(o, line) ==
    /\ proc[o] = "running"
    /\ Len(sout[o]) < MaxPipe
    /\ sout' = [sout EXCEPT ![o] = Append(@, line)]
    /\ UNCHANGED <<registryVars, alloc, proc, stdinOpen, mu, lastUsed, removed, orphans,
                   leaked, desc, clientVars, reaperVars, timeVars, kubeVars>>

\* The subprocess exits on its own (the debugged target went away, it read "exit", ...).
ChildExit(o) ==
    /\ proc[o] = "running"
    /\ proc' = [proc EXCEPT ![o] = "exited"]
    /\ UNCHANGED <<registryVars, alloc, stdinOpen, sout, mu, lastUsed, removed, orphans,
                   leaked, desc, clientVars, reaperVars, timeVars, kubeVars>>

\* The context of the connect request that started the subprocess becomes done (the
\* request ended or was cancelled): exec.CommandContext kills the process.
CtxDone(o) ==
    /\ proc[o] = "running"
    /\ proc' = Kill(o, "cancelled")
    /\ UNCHANGED <<registryVars, alloc, stdinOpen, sout, mu, lastUsed, removed, orphans,
                   leaked, desc, clientVars, reaperVars, timeVars, kubeVars>>

\* The subprocess forks a process of its own.  The child was started without
\* SysProcAttr, so it and its descendants stay in the server's process group.
ChildFork(o) ==
    /\ proc[o] = "running"
    /\ ~desc[o]
    /\ desc' = [desc EXCEPT ![o] = TRUE]
    /\ UNCHANGED <<registryVars, alloc, proc, stdinOpen, sout, mu, lastUsed, removed,
                   orphans, leaked, clientVars, reaperVars, timeVars, kubeVars>>

\* The forked process exits on its own.
DescExit(o) ==
    /\ desc[o]
    /\ desc' = [desc EXCEPT ![o] = FALSE]
    /\ UNCHANGED <<registryVars, alloc, proc, stdinOpen, sout, mu, lastUsed, removed,
                   orphans, leaked, clientVars, reaperVars, timeVars, kubeVars>>

\* The subprocess or a process it forked is running.
GroupAlive(o) == proc[o] = "running" \/ desc[o]

\* Time passes; the ticker puts a tick into its channel (capacity 1) at every multiple
\* of cleanupInterval.
Tick(d) ==
    /\ clock + d <= MaxClock
    /\ clock' = clock + d
    /\ tickPending' = (tickPending \/ (clock + d) \div cleanupInterval > clock \div cleanupInterval)
    /\ UNCHANGED <<registryVars, objVars, clientVars, reaperVars, kubeVars>>

\* ------------------------------------------------------------ kube tool
\* port-forward and stop-port-forward and the connector under them. One request
\* is handled at a time: kpc is the handler's position.

\* The request returns with result r.
KubeReturn(r) ==
    /\ kpc' = "idle"
    /\ kcur' = NoConnector
    /\ kres' = r

\* handlePortForward up to the store of the connector: the resource or the
\* local port is refused (no connector is made), or a new connector is made and
\* stored in k.lastConnector, before anything has been started with it.
HandlePortForward ==
    /\ kpc = "idle"
    /\ \/ /\ KubeReturn("pf_rejected")
          /\ UNCHANGED <<nconn, lastConnector>>
       \/ /\ nconn < MaxConnectors
          /\ nconn' = nconn + 1
          /\ kcur' = nconn + 1
          /\ lastConnector' = nconn + 1
          /\ kpc' = "pf_test"
          /\ UNCHANGED kres
    /\ UNCHANGED <<portForwardCmd, kproc>>
    /\ UNCHANGED <<registryVars, objVars, clientVars, reaperVars, timeVars>>

\* TestConnection and checkResourceExists: either fails the request.
PortForwardTest ==
    /\ kpc = "pf_test"
    /\ \/ /\ KubeReturn("pf_failed")
       \/ /\ kpc' = "pf_start"
          /\ UNCHANGED <<kcur, kres>>
    /\ UNCHANGED <<nconn, lastConnector, portForwardCmd, kproc>>
    /\ UNCHANGED <<registryVars, objVars, clientVars, reaperVars, timeVars>>

\* Connector.stopPortForward: nothing without a command; else the process group
\* is signalled (the port-forward process ends) and the command is dropped. A
\* signal to the connector's own child group is taken to be delivered or to find
\* no process, the two outcomes the function treats as success.
stopPortForward(k) ==
    /\ kproc' = IF portForwardCmd[k] /\ kproc[k] = "running"
                THEN [kproc EXCEPT ![k] = "ended"]
                ELSE kproc
    /\ portForwardCmd' = [portForwardCmd EXCEPT ![k] = FALSE]

\* Connector.PortForward on the handler's connector: its own earlier command is
\* stopped, then the process starts and is kept in portForwardCmd, or fails to
\* start.
PortForward ==
    /\ kpc = "pf_start"
    /\ \/ /\ stopPortForward(kcur)
          /\ KubeReturn("pf_failed")
       \/ /\ portForwardCmd' = [portForwardCmd EXCEPT ![kcur] = TRUE]
          /\ kproc' = [kproc EXCEPT ![kcur] = "running"]
          /\ KubeReturn("pf_established")
    /\ UNCHANGED <<nconn, lastConnector>>
    /\ UNCHANGED <<registryVars, objVars, clientVars, reaperVars, timeVars>>

\* handleStopPortForward up to its read of k.lastConnector: nil is answered
\* "No active port forwarding found".
HandleStopPortForward ==
    /\ kpc = "idle"
    /\ IF lastConnector = NoConnector
       THEN KubeReturn("no_active")
       ELSE /\ kcur' = lastConnector
            /\ kpc' = "stop_call"
            /\ UNCHANGED kres
    /\ UNCHANGED <<nconn, lastConnector, portForwardCmd, kproc>>
    /\ UNCHANGED <<registryVars, objVars, clientVars, reaperVars, timeVars>>

\* connector.StopPortForward() on the connector read, then k.lastConnector is
\* cleared and "Port forwarding stopped successfully" is returned.
StopPortForward ==
    /\ kpc = "stop_call"
    /\ stopPortForward(kcur)
    /\ lastConnector' = NoConnector
    /\ KubeReturn("stopped")
    /\ UNCHANGED nconn
    /\ UNCHANGED <<registryVars, objVars, clientVars, reaperVars, timeVars>>

\* A port-forward process ends by itself (the pod went away); the goroutine
\* started by PortForward reaps it.
KubectlExit(k) ==
    /\ kproc[k] = "running"
    /\ kproc' = [kproc EXCEPT ![k] = "ended"]
    /\ UNCHANGED <<nconn, lastConnector, portForwardCmd, kpc, kcur, kres>>
    /\ UNCHANGED <<registryVars, objVars, clientVars, reaperVars, timeVars>>

\* ------------------------------------------------------------------ Next
\* The requests of client c on the session ids of I, and the reader goroutine of its command.
ConnectStep(c, I) ==
    \/ \E id \in I : HandleConnect(c, id)
    \/ ConnectSessionStart(c)
    \/ ConnectSessionFail(c)
    \/ HandleConnectInsert(c)

\* A command whose reader goroutine finds the pipe empty: it ends at the end of the
\* stream or by timeout.
CommandStep(c, I) ==
    \/ \E id \in I : HandleCommand(c, id)
    \/ ExecLock(c)
    \/ ExecSend(c)
    \/ ReaderEOF(c)
    \/ ExecDone(c)
    \/ ExecTimeout(c)

\* The reader goroutine of a command, and a left-over one, taking lines from the pipe.
ReadStep(c) ==
    \/ \E k \in 1..MaxPipe : ReaderRead(c, k)
    \/ ReaderLine(c)

OrphanReadStep == \E o \in Objs, k \in 1..MaxPipe : OrphanRead(o, k)

OrphanEOFStep == \E o \in Objs : OrphanEOF(o)

DisconnectStep(c, I) ==
    \/ \E id \in I : HandleDisconnect(c, id)
    \/ DisconnectSendExit(c)
    \/ DisconnectCloseStdin(c)
    \/ DisconnectKill(c)
    \/ DisconnectDelete(c)

ReaperStep ==
    \/ ReaperSweep
    \/ \E id \in Ids : ReaperVisit(id)
    \/ ReaperSendExit
    \/ ReaperCloseStdin
    \/ ReaperKill
    \/ ReaperDelete
    \/ ReaperUnlock

\* The subprocess, writing lines of L, at most cap of them ahead of the readers.
ChildStep(L, cap) ==
    \/ \E o \in Objs, line \in L : Len(sout[o]) < cap /\ ChildEmit(o, line)
    \/ \E o \in Objs : ChildExit(o)
    \/ \E o \in Objs : CtxDone(o)

\* Two clients on one session id, no reaper: the interleavings of connect, command
\* and disconnect.  The subprocess answers with one prompt line at a time.
NextSessions ==
    \/ \E c \in Clients : ConnectStep(c, {"d1"})
    \/ \E c \in Clients : CommandStep(c, {"d1"})
    \/ \E c \in Clients : ReadStep(c)
    \/ \E c \in Clients : DisconnectStep(c, {"d1"})
    \/ OrphanReadStep
    \/ OrphanEOFStep
    \/ ChildStep({PromptDlv \o <<" ">>}, 1)

SpecSessions == Init /\ [][NextSessions]_vars

\* One client on two session ids, the reaper and the clock.  The subprocess writes
\* nothing: a command ends by timeout or at the end of the stream.
NextReaper ==
    \/ ConnectStep("c1", Ids)
    \/ CommandStep("c1", Ids)
    \/ DisconnectStep("c1", Ids)
    \/ OrphanEOFStep
    \/ ReaperStep
    \/ \E o \in Objs : ChildExit(o)
    \/ \E o \in Objs : CtxDone(o)
    \/ \E d \in TickSteps : Tick(d)

SpecReaper == Init /\ [][NextReaper]_vars

\* Two clients, each on a session id of its own, no reaper: what one client's requests
\* can do while the other's command waits.  The subprocesses write nothing.
OwnId(c) == IF c = "c1" THEN "d1" ELSE "d2"

NextTwoSessions ==
    \/ \E c \in Clients : ConnectStep(c, {OwnId(c)})
    \/ \E c \in Clients : CommandStep(c, {OwnId(c)})
    \/ \E c \in Clients : DisconnectStep(c, {OwnId(c)})
    \/ OrphanEOFStep
    \/ \E o \in Objs : ChildExit(o)

SpecTwoSessions == Init /\ [][NextTwoSessions]_vars

\* One client on one session id, no disconnect and no reaper: the round trip of a
\* command against a subprocess that writes lines with and without a prompt, up to
\* the capacity of the pipe ahead of the readers.
NextFramer ==
    \/ ConnectStep("c1", {"d1"})
    \/ CommandStep("c1", {"d1"})
    \/ ReadStep("c1")
    \/ OrphanReadStep
    \/ OrphanEOFStep
    \/ ChildStep(Lines, MaxPipe)

SpecFramer == Init /\ [][NextFramer]_vars

\* One client on one session id, with the reaper and the clock: the id is connected,
\* torn down by disconnect or by the reaper, and connected again.
NextReuse ==
    \/ ConnectStep("c1", {"d1"})
    \/ CommandStep("c1", {"d1"})
    \/ DisconnectStep("c1", {"d1"})
    \/ OrphanEOFStep
    \/ ReaperStep
    \/ \E d \in TickSteps : Tick(d)

SpecReuse == Init /\ [][NextReuse]_vars

\* The same, with every handler, the reaper and the clock going on as long as they
\* have a step to take.
SpecReuseFair == SpecReuse /\ WF_vars(NextReuse)

\* One client on one session id, the reaper and the clock, with a subprocess that
\* forks and exits: what the two teardowns leave of the subprocess's process tree.
NextGroup ==
    \/ ConnectStep("c1", {"d1"})
    \/ DisconnectStep("c1", {"d1"})
    \/ ReaperStep
    \/ \E o \in Objs : ChildFork(o)
    \/ \E o \in Objs : DescExit(o)
    \/ \E o \in Objs : ChildExit(o)
    \/ \E d \in TickSteps : Tick(d)

SpecGroup == Init /\ [][NextGroup]_vars

\* One client whose requests enter through DelveHandler, on two session ids and
\* without one; no reaper.
NextHandler ==
    \/ \E in \in Inputs : DelveHandler("c1", in)
    \/ ConnectSessionStart("c1")
    \/ ConnectSessionFail("c1")
    \/ HandleConnectInsert("c1")
    \/ ExecLock("c1")
    \/ ExecSend("c1")
    \/ ReaderEOF("c1")
    \/ ExecDone("c1")
    \/ ExecTimeout("c1")
    \/ DisconnectSendExit("c1")
    \/ DisconnectCloseStdin("c1")
    \/ DisconnectKill("c1")
    \/ DisconnectDelete("c1")
    \/ OrphanEOFStep
    \/ \E o \in Objs : ChildExit(o)

SpecHandler == Init /\ [][NextHandler]_vars

\* The kube tool alone: port-forward and stop-port-forward requests, one at a
\* time, and port-forward processes ending by themselves.
NextKube ==
    \/ HandlePortForward
    \/ PortForwardTest
    \/ PortForward
    \/ HandleStopPortForward
    \/ StopPortForward
    \/ \E k \in Conns : KubectlExit(k)

SpecKube == Init /\ [][NextKube]_vars

TypeOK ==
    /\ sessions \in [Ids -> Objs \cup {NoSession}]
    /\ sessionMu \in Clients \cup {Reaper, None}
    /\ alloc \in 0..MaxSessions
    /\ proc \in [Objs -> {"unborn", "running", "exited", "killed", "cancelled"}]
    /\ mu \in [Objs -> Clients \cup {None}]
    /\ desc \in [Objs -> BOOLEAN]
    /\ \A o \in Objs : lastUsed[o] \in 0..MaxClock /\ Len(sout[o]) <= MaxPipe
    /\ clock \in 0..MaxClock
    /\ nconn \in 0..MaxConnectors
    /\ lastConnector \in Conns \cup {NoConnector}
    /\ kcur \in Conns \cup {NoConnector}
    /\ portForwardCmd \in [Conns -> BOOLEAN]
    /\ kproc \in [Conns -> {"none", "running", "ended"}]

\* ================================================================ claims
\* The commands whose round trip on session object o is under way: past the Lock of
\* executeCommand, at the write or waiting for the reader goroutine.
InFlight(o) == {c \in Clients : sess[c] = o /\ pc[c] \in {"sendCommand", "wait"}}

\* C1: at most one command is in flight per session; the command in flight holds the
\* session lock from before its write until it returns, its reader goroutine runs
\* only inside that window, so a second command neither writes nor reads before the
\* first has returned (by prompt, end of stream or timeout).
C1_OneCommandInFlight ==
    /\ \A o \in Objs : Cardinality(InFlight(o)) <= 1
    /\ \A o \in Objs : \A c \in InFlight(o) : mu[o] = c
    /\ \A c \in Clients : rd[c] # None => pc[c] = "wait"

\* C1 witness: one command waits for output while a second command on the same
\* session is blocked at the session lock.
C1_Witness ==
    \E c1, c2 \in Clients :
        /\ c1 # c2
        /\ sess[c1] = sess[c2]
        /\ pc[c1] = "wait" /\ rd[c1] = "reading"
        /\ pc[c2] = "executeCommand"

\* C2 (as claimed): every task whose next step writes to session.stdin, reads from
\* session.stdout or closes a pipe holds session.mu: the command at its write, its
\* reader goroutine, a reader left behind by a timeout, disconnect and the reaper.
C2_PipesUnderSessionLock ==
    /\ \A c \in Clients : pc[c] = "sendCommand" => mu[sess[c]] = c
    /\ \A c \in Clients : rd[c] = "reading" => mu[sess[c]] = c
    /\ \A o \in Objs : orphans[o] = 0
    /\ \A c \in Clients : pc[c] \in {"sendExit", "closeStdin"} => mu[sess[c]] = c
    /\ rpc \in {"sendExit", "closeStdin"} => mu[sessions[rcur]] = Reaper

\* C3: a connect for a session id that is in the registry returns already-exists in
\* the same step, changes neither the registry nor any session object and starts no
\* subprocess; no connect is past the check (where the subprocess is started) while
\* its id is in the registry.
C3_ConnectExistingRejected ==
    /\ [](\A c \in Clients :
            pc[c] \in {"connectSession", "startupDelay"} => sessions[arg[c]] = NoSession)
    /\ [][\A c \in Clients, id \in Ids :
            (HandleConnect(c, id) /\ sessions[id] # NoSession)
                => /\ res'[c] = "already_exists"
                   /\ pc'[c] = "idle"
                   /\ sessionMu' = sessionMu
                   /\ sessions' = sessions
                   /\ alloc' = alloc
                   /\ proc' = proc
                   /\ stdinOpen' = stdinOpen]_vars

\* C3 witness: a connect was rejected and the session it collided with is still in
\* the registry with its process running.
C3_Witness ==
    \E c \in Clients :
        /\ pc[c] = "idle" /\ op[c] = "connect" /\ res[c] = "already_exists"
        /\ sessions[arg[c]] # NoSession
        /\ proc[sessions[arg[c]]] = "running"
        /\ alloc = 1

\* Where a session object is: being built by a connect that holds the registry lock
\* (between cmd.Start() and the insertion), or the value of a registry entry.
UnderConstruction(o) == \E c \in Clients : pc[c] = "startupDelay" /\ sess[c] = o
InRegistry(o) == \E id \in Ids : sessions[id] = o

\* Both clients' last requests are finished connects for the same id, and no entry
\* has ever been removed: connect calls racing for an id that was not in the registry.
ConnectRace(c1, c2) ==
    /\ c1 # c2
    /\ pc[c1] = "idle" /\ pc[c2] = "idle"
    /\ op[c1] = "connect" /\ op[c2] = "connect"
    /\ arg[c1] = arg[c2]
    /\ \A o \in Objs : ~removed[o]

\* C4 (as claimed): after connect calls racing for one id have all returned, exactly
\* one has succeeded: the id is in the registry, exactly one subprocess was started,
\* and every call either succeeded or failed with already-exists.  (A call blocked in
\* Lock() is a call whose first step has not been taken yet.)
C4_ExactlyOneConnectSucceeds ==
    \A c1, c2 \in Clients :
        ConnectRace(c1, c2)
            => /\ sessions[arg[c1]] # NoSession
               /\ alloc = 1
               /\ {res[c1], res[c2]} \subseteq {"connected", "already_exists"}

\* C4 (amended): the check, the spawn and the insertion are one critical section of
\* the registry lock; every subprocess started is accounted for by exactly one of: a
\* connect still holding the lock, a registry entry, a removal; of racing connects at
\* most one succeeds, one that fails got already-exists (the id then is in the
\* registry) or the spawn error, and a subprocess was started only for the one that
\* succeeded.
C4_ConnectAtomic ==
    /\ \A c \in Clients : pc[c] \in {"connectSession", "startupDelay"} => sessionMu = c
    /\ \A o \in 1..alloc :
          /\ UnderConstruction(o) \/ InRegistry(o) \/ removed[o]
          /\ ~(UnderConstruction(o) /\ InRegistry(o))
          /\ ~(removed[o] /\ (InRegistry(o) \/ UnderConstruction(o)))
          /\ Cardinality({id \in Ids : sessions[id] = o}) <= 1
    /\ \A c1, c2 \in Clients :
          ConnectRace(c1, c2)
              => /\ {res[c1], res[c2]} \subseteq {"connected", "already_exists", "spawn_error"}
                 /\ ~(res[c1] = "connected" /\ res[c2] = "connected")
                 /\ res[c1] = "already_exists" => sessions[arg[c1]] # NoSession
                 /\ alloc = Cardinality({id \in Ids : sessions[id] # NoSession})

\* C4 witness: two connects for the same id have returned, one with success and the
\* other with already-exists, and one subprocess was started.
C4_Witness ==
    \E c1, c2 \in Clients :
        /\ ConnectRace(c1, c2)
        /\ res[c1] = "connected" /\ res[c2] = "already_exists"
        /\ alloc = 1 /\ sessions[arg[c1]] = 1

\* C5 (as claimed): a command or disconnect that finds no registry entry returns
\* not-found, and so does a command that looked its session up before the teardown
\* and gets to the pipes (the write of executeCommand, the wait) after the entry was
\* removed.
C5_TerminatedMeansNotFound ==
    [][/\ \A c \in Clients, id \in Ids :
            ((HandleCommand(c, id) \/ HandleDisconnect(c, id)) /\ sessions[id] = NoSession)
                => res'[c] = "not_found"
       /\ \A c \in Clients :
            (pc[c] \in {"sendCommand", "wait"} /\ removed[sess[c]] /\ pc'[c] = "idle")
                => res'[c] = "not_found"]_vars

\* C7 (as claimed): whenever a lookup can run (no writer holds the registry lock),
\* every registry entry's subprocess is running: not terminated, not exited.
C7_LookupSeesLiveProcess ==
    \A id \in Ids :
        (sessionMu = None /\ sessions[id] # NoSession) => proc[sessions[id]] = "running"

\* C8 (as claimed): a session removed from the registry by disconnect leaves its
\* child neither running nor a zombie.
C8_DisconnectLeavesNoProcess ==
    \A o \in Objs : removed[o] => ~(proc[o] = "running" \/ Zombie(o))

C10_ReaperTeardownUnlocked ==
    rpc \in {"sendExit", "closeStdin", "kill"} => sessionMu # Reaper

\* C11: a command waiting for output holds the lock of its own session and nothing
\* else: not the registry lock, not the lock of another session; a command of another
\* client that has looked up another session can take that session's lock, and an
\* idle client can start a connect or a disconnect, while the first command waits.
C11_WaitHoldsOnlySessionLock ==
    \A c \in Clients : pc[c] = "wait" =>
        /\ sessionMu # c
        /\ mu[sess[c]] = c
        /\ \A o \in Objs \ {sess[c]} : mu[o] # c
        /\ \A c2 \in Clients \ {c} :
              /\ (pc[c2] = "executeCommand" /\ sess[c2] # sess[c]) => ENABLED ExecLock(c2)
              /\ (pc[c2] = "idle" /\ sessionMu = None) =>
                     /\ ENABLED HandleConnect(c2, OwnId(c2))
                     /\ ENABLED HandleDisconnect(c2, OwnId(c2))

\* C11 witness: the commands of two clients wait for output on two sessions at the
\* same time (the later one went through its lookup, lock and write during the wait
\* of the earlier one).
C11_Witness ==
    /\ pc["c1"] = "wait" /\ pc["c2"] = "wait"
    /\ sess["c1"] # sess["c2"]
    /\ sessionMu = None

\* C12 (as claimed): when the command of a client times out, the client receives the
\* timed-out signal together with the output lines its reader goroutine had collected
\* by then.
C12_TimeoutReturnsPartial ==
    [][\A c \in Clients : ExecTimeout(c) => res'[c] = "timed_out" /\ out'[c] = out[c]]_vars

\* C13 (as claimed): a timeout leaves the registry and the subprocess as they are,
\* and while a later command on the session waits for its response no reader
\* goroutine left over from a timed-out command scans the session's stdout or takes
\* a line from it.
C13_TimedOutSessionUsable ==
    /\ [](\A c \in Clients : pc[c] = "wait" => orphans[sess[c]] = 0)
    /\ [][/\ \A c \in Clients : ExecTimeout(c) => sessions' = sessions /\ proc' = proc
          /\ \A o \in Objs, k \in 1..MaxPipe : OrphanRead(o, k) => InFlight(o) = {}]_vars

\* C14: a command for a session id that is not in the registry returns not-found in
\* the same step and changes nothing else: the registry, every subprocess, every
\* pipe, every lock and every lastUsed are as before.
C14_CommandUnknownNoEffect ==
    [][\A c \in Clients, id \in Ids :
          (HandleCommand(c, id) /\ sessions[id] = NoSession) =>
              /\ res'[c] = "not_found"
              /\ pc'[c] = "idle"
              /\ UNCHANGED <<registryVars, objVars>>]_vars

\* C14 witness: a command for an absent id has returned not-found while another
\* session, used before the present time, is registered with its subprocess running.
C14_Witness ==
    \E c \in Clients, id \in Ids :
        /\ op[c] = "command" /\ res[c] = "not_found" /\ pc[c] = "idle"
        /\ sessions[arg[c]] = NoSession
        /\ sessions[id] # NoSession
        /\ proc[sessions[id]] = "running"
        /\ lastUsed[sessions[id]] < clock

\* The steps of disconnectSession after its lookup.
InDisconnect(c) == pc[c] \in {"sendExit", "closeStdin", "kill", "delete"}

\* C15: a disconnect for an absent id returns not-found and changes neither the
\* registry nor any session object; a disconnect for a present id works on that
\* id's session object only, and its delete removes that key and no other.
C15_DisconnectExactlyThatKey ==
    /\ [](\A c \in Clients : InDisconnect(c) =>
             /\ sessionMu = c
             /\ sess[c] # NoSession
             /\ sessions[arg[c]] = sess[c])
    /\ [][\A c \in Clients :
             /\ \A id \in Ids :
                   (HandleDisconnect(c, id) /\ sessions[id] = NoSession) =>
                       /\ res'[c] = "not_found"
                       /\ UNCHANGED <<registryVars, objVars>>
             /\ (InDisconnect(c) /\ pc'[c] # pc[c]) =>
                   /\ \A o \in Objs \ {sess[c]} :
                         proc'[o] = proc[o] /\ stdinOpen'[o] = stdinOpen[o]
                   /\ \A id \in Ids \ {arg[c]} : sessions'[id] = sessions[id]
             /\ DisconnectDelete(c) =>
                   /\ sessions'[arg[c]] = NoSession
                   /\ res'[c] = "disconnected"]_vars

\* C15 witness: a disconnect has removed its key while the other session stays
\* registered with its subprocess running.
C15_Witness ==
    \E c \in Clients, id \in Ids :
        /\ op[c] = "disconnect" /\ res[c] = "disconnected" /\ pc[c] = "idle"
        /\ id # arg[c]
        /\ sessions[arg[c]] = NoSession
        /\ sessions[id] # NoSession
        /\ proc[sessions[id]] = "running"

\* C16: a connect whose spawn fails returns the spawn error, creates no session
\* object, leaves the registry without an entry for its id and the registry lock
\* free, so the existence check of a later connect with that id passes; no registry
\* entry ever refers to a session object without a started subprocess.
C16_SpawnFailureLeavesNothing ==
    /\ [](\A id \in Ids : sessions[id] # NoSession => proc[sessions[id]] # "unborn")
    /\ [][\A c \in Clients :
             ConnectSessionFail(c) =>
                 /\ res'[c] = "spawn_error"
                 /\ sessions'[arg[c]] = NoSession
                 /\ sessionMu' = None
                 /\ sess'[c] = NoSession
                 /\ UNCHANGED <<sessions, objVars>>]_vars

\* C16 witness: the connect of one client has failed at the spawn, and the connect
\* of the other client with the same id has passed the existence check and started
\* the first subprocess.
C16_Witness ==
    \E c1, c2 \in Clients :
        /\ c1 # c2
        /\ op[c1] = "connect" /\ res[c1] = "spawn_error" /\ pc[c1] = "idle"
        /\ arg[c2] = arg[c1]
        /\ pc[c2] = "startupDelay"
        /\ alloc = 1
        /\ proc[sess[c2]] = "running"

\* The session object a teardown step of disconnect or of the reaper works on.
TeardownTargets ==
    {sess[c] : c \in {c \in Clients : InDisconnect(c)}}
        \cup (IF rpc \in {"sendExit", "closeStdin", "kill", "delete"}
              THEN {sessions[rcur]} ELSE {})

C18_SessionOutlivesRequest == \A o \in Objs : proc[o] # "cancelled"

C20_KillEndsGroup ==
    [][/\ \A c \in Clients :
             DisconnectKill(c) => proc'[sess[c]] # "running" /\ ~desc'[sess[c]]
       /\ ReaperKill => proc'[sessions[rcur]] # "running" /\ ~desc'[sessions[rcur]]]_vars

\* C21 (as claimed): once the teardown of a session has completed (its registry entry
\* is deleted), neither its subprocess nor a process that subprocess forked is running.
C21_TeardownEndsProcessTree == \A o \in Objs : removed[o] => ~GroupAlive(o)

\* The connection identity of a caller (the id of its MCP session), used as a key.
ConnID(c) == c

\* C22 (as claimed): a valid request without session_id is carried out as the registry
\* operation its action names ("command" when the action is absent too), on the
\* caller's connection identity as the session key.
C22_NoSessionIdUsesConnection ==
    [][\A c \in Clients, in \in Inputs :
          (DelveHandler(c, in) /\ Valid(in) /\ in.SessionID = "") =>
              /\ op'[c] = (IF in.Action # "" THEN in.Action ELSE "command")
              /\ arg'[c] = ConnID(c)]_vars

\* What the claim names as invalid: a field outside its bounds.
OutOfBounds(in) ==
    \/ in.Port < 0 \/ in.Port > 65535
    \/ in.Command > 4096
    \/ in.MaxLines < 0 \/ in.MaxLines > 100000
    \/ in.Offset < 0
    \/ in.Host \in BadHosts
    \/ in.Action \notin {"", "connect", "disconnect", "command"}

C24_LastUsedMonotonic ==
    /\ [](\A o \in Objs : lastUsed[o] <= clock)
    /\ [][/\ \A o \in Objs : lastUsed'[o] >= lastUsed[o]
          /\ \A c \in Clients :
                /\ ConnectSessionStart(c) => lastUsed'[sess'[c]] = clock
                /\ ExecLock(c) => lastUsed'[sess[c]] = clock]_vars

\* C24 witness: a command on the first session has returned successfully, and the
\* first session's lastUsed is later than that of the second session, which was
\* created after it: the command has moved it forward from its value at connect.
C24_Witness ==
    \E c \in Clients :
        /\ op[c] = "command" /\ res[c] = "ok" /\ pc[c] = "idle"
        /\ sessions[arg[c]] = 1
        /\ proc[2] # "unborn"
        /\ lastUsed[1] > lastUsed[2]
        /\ lastUsed[1] = clock

\* C25 (as claimed): when the reader goroutine of a command has found the prompt, the
\* collected output ends with the first line that holds a prompt marker, and the
\* command has taken no line after that one from the subprocess's output.
C25_ResponseEndsAtFirstPrompt ==
    \A c \in Clients : rd[c] = "sendTrue" =>
        /\ out[c] # <<>>
        /\ HasPrompt(out[c][Len(out[c])])
        /\ \A i \in 1..(Len(out[c]) - 1) : ~HasPrompt(out[c][i])
        /\ rbuf[c] = <<>>

C27_NoReaderLeftBlocked == \A o \in Objs : leaked[o] = 0

\* The teardowns under way on session object o: disconnect calls past their lookup,
\* and the reaper between its staleness test and its delete.
Contenders(o) ==
    {c \in Clients : InDisconnect(c) /\ sess[c] = o}
        \cup (IF rpc \in {"sendExit", "closeStdin", "kill", "delete"} /\ rcur # None
                 /\ sessions[rcur] = o
              THEN {Reaper} ELSE {})

\* C28: at most one teardown is under way on a session at any time; a teardown begins
\* only on a session that is registered and whose stdin no teardown has closed, and
\* it ends with the delete of the entry, so that no session is torn down twice; a
\* disconnect that comes after the delete gets not-found.
C28_TeardownAtMostOnce ==
    /\ [](\A o \in Objs : Cardinality(Contenders(o)) <= 1)
    /\ [][/\ \A o \in Objs :
                /\ (Contenders(o) = {} /\ Contenders(o)' # {}) =>
                       stdinOpen[o] /\ ~removed[o] /\ InRegistry(o)
                /\ (Contenders(o) # {} /\ Contenders(o)' = {}) =>
                       removed'[o] /\ ~InRegistry(o)'
          /\ \A c \in Clients, id \in Ids :
                (HandleDisconnect(c, id) /\ sessions[id] = NoSession)
                    => res'[c] = "not_found" /\ pc'[c] = "idle"]_vars

\* C28 witness: the reaper is in the middle of the teardown of a stale session, and
\* a disconnect call for that session cannot begin: it waits for the registry lock.
C28_Witness ==
    /\ rpc = "kill"
    /\ Contenders(sessions[rcur]) = {Reaper}
    /\ \E c \in Clients :
          pc[c] = "idle" /\ ~ENABLED HandleDisconnect(c, rcur)

\* C29 (as claimed): the reaper's read of a session's lastUsed (the next staleness
\* test of its range loop) and a command's write of it (the step that takes the
\* session lock) are never possible in the same state.
C29_LastUsedUnderCommonLock ==
    \A c \in Clients, id \in Ids :
        ~(/\ rpc = "range"
          /\ id \in rtodo
          /\ pc[c] = "executeCommand"
          /\ sessions[id] = sess[c]
          /\ ENABLED ReaperVisit(id)
          /\ ENABLED ExecLock(c))

\* C30 (as claimed): when a stop-port-forward returns success, no port-forward
\* process started by the tool is still running, whatever port-forward requests
\* (established or failed) came before; and a stop-port-forward with nothing stored
\* answers that no active port forwarding exists.
C30_StopLeavesNoPortForward ==
    /\ [][StopPortForward => \A k \in Conns : kproc'[k] # "running"]_vars
    /\ [][(HandleStopPortForward /\ kres = "stopped" /\ kpc' = "idle")
             => kres' = "no_active"]_vars

====
